---- MODULE Spec2Model ----
(***************************************************************************)
(* The import command of stitch-cli (commands/import.go): one run of       *)
(* ImportCommand.Run, which validates the strategy flag and then executes   *)
(* importApp step by step against its collaborators (the local directory,   *)
(* the Stitch and Atlas clients, the prompts, the hosting package).         *)
(* Every collaborator call is one action; its outcome (value or error) is   *)
(* chosen nondeterministically, and the call is appended to the history     *)
(* variable `calls`.                                                        *)
(***************************************************************************)
EXTENDS Integers, Sequences, FiniteSets, TLC

\* ------------------------------------------------------------------ bounds

\* entity bodies are the integers 1..MaxValue
MaxValue == 2
\* the number of "Atlas Project Name or ID" prompts one run may answer
MaxAsk == 2

\* ---------------------------------------------------------------- constants

importStrategyMerge == "merge"
importStrategyReplace == "replace"

\* what a user may pass as --strategy (NotPassed: the flag is omitted)
NotPassed == "<not passed>"
StrategyArgs == {NotPassed, "merge", "replace", "bogus"}

\* natural keys of the entities of an app, in display order
NameOrder == <<"P1", "P2">>
Names == {NameOrder[i] : i \in 1..Len(NameOrder)}
Values == 1..MaxValue

\* an entity collection: natural key -> body
EntityMaps == UNION {[D -> Values] : D \in SUBSET Names}
\* the declarations a local directory may hold when a run starts: every body
\* is 1, so that a deployed body of 2 or more differs from the declared one
LocalEntityMaps == UNION {[D -> {1}] : D \in SUBSET Names}
EmptyMap == <<>>

\* strings that are compared character by character are tuples of characters
Str(c, n) == [i \in 1..n |-> c]
HexChars == {"0", "1", "a", "f"}
GroupA == Str("a", 24)
GroupF == Str("f", 24)
NotHex24 == Str("z", 24)
ProjectName == <<"p", "0">>
OtherName == <<"p", "1">>

\* ------------------------------------------------------- error values

Nil == [class |-> "nil", cause |-> ""]
\* an error returned unwrapped by the collaborator `cause`
PlainErr(cause) == [class |-> "plain", cause |-> cause]
errCreateAppSyncFailure(cause) == [class |-> "CreateAppSyncFailure", cause |-> cause]
errImportAppSyncFailureAsImport(cause) == [class |-> "ImportFailure", cause |-> cause]
errImportAppSyncFailure(cause) == [class |-> "ImportAppSyncFailure", cause |-> cause]
errIncludeHosting(cause) == [class |-> "IncludeHosting", cause |-> cause]
errDiffFailure(cause) == [class |-> "DiffFailure", cause |-> cause]
errImportFailure(cause) == [class |-> "ImportFailure", cause |-> cause]
errHostingImportFailure(cause) == [class |-> "HostingImportFailure", cause |-> cause]

\* ------------------------------------------------------- app records

NilApp == [GroupID |-> <<>>, ID |-> "", ClientAppID |-> "", Name |-> ""]
ExistingApp == [GroupID |-> GroupA, ID |-> "id1", ClientAppID |-> "app1", Name |-> "n1"]
CreatedApp(group, name) ==
    [GroupID |-> group, ID |-> "id2", ClientAppID |-> "app2", Name |-> name]

\* the instance data (stitch.json): field -> string
AppIDField == "app_id"
AppNameField == "name"
Field(data, f) == IF f \in DOMAIN data THEN data[f] ELSE ""
AppID(data) == Field(data, AppIDField)
AppName(data) == Field(data, AppNameField)


\* ------------------------------------------------ encoding and remote diff

\* the natural keys of a collection, in display order
Keys(m) == SelectSeq(NameOrder, LAMBDA n : n \in DOMAIN m)

\* json.Marshal(loadedApp): the entities as a sequence of <<name, body>> pairs
Marshal(m) == [i \in 1..Len(Keys(m)) |-> <<Keys(m)[i], m[Keys(m)[i]]>>]

\* the remote side decodes a payload back into a collection, by natural key
Decode(p) ==
    [n \in {p[i][1] : i \in 1..Len(p)} |->
        p[CHOOSE i \in 1..Len(p) : p[i][1] = n][2]]

\* one diff line per create/update decision, in key order
ChangeLine(local, remote, n) ==
    IF n \notin DOMAIN remote THEN <<"create", n>> ELSE <<"update", n>>
ChangedKeys(local, remote) ==
    SelectSeq(Keys(local), LAMBDA n : n \notin DOMAIN remote \/ remote[n] # local[n])
RemoteOnlyKeys(local, remote) ==
    SelectSeq(Keys(remote), LAMBDA n : n \notin DOMAIN local)
ChangeLines(local, remote) ==
    [i \in 1..Len(ChangedKeys(local, remote)) |->
        ChangeLine(local, remote, ChangedKeys(local, remote)[i])]
DeleteLines(local, remote) ==
    [i \in 1..Len(RemoteOnlyKeys(local, remote)) |->
        <<"delete", RemoteOnlyKeys(local, remote)[i]>>]

\* Configuration Diff Engine: the diff lines of payload against the deployed
\* collection under a strategy
ConfigDiffMergeDeletes(payload, remote, strategy) ==
    ChangeLines(Decode(payload), remote) \o DeleteLines(Decode(payload), remote)
ConfigDiff(payload, remote, strategy) ==
    ChangeLines(Decode(payload), remote)
        \o (IF strategy = importStrategyReplace
            THEN DeleteLines(Decode(payload), remote)
            ELSE <<>>)

\* the deployed collection after the remote side applied a payload
ApplyPayload(payload, remote, strategy) ==
    IF strategy = importStrategyReplace
    THEN Decode(payload)
    ELSE [n \in DOMAIN remote \cup DOMAIN Decode(payload) |->
            IF n \in DOMAIN Decode(payload) THEN Decode(payload)[n] ELSE remote[n]]

\* ------------------------------------------------------- hosting assets

AssetPaths == {"f"}
Hashes == {"h1", "h2"}
AssetMaps == UNION {[D -> Hashes] : D \in SUBSET AssetPaths}
PathSeq(S) == IF "f" \in S THEN <<"f">> ELSE <<>>

NewAssetCache == [entries |-> EmptyMap, dirty |-> FALSE]

\* hosting.ListLocalAssetMetadata: the metadata of the local files; a file whose
\* hash the cache does not hold is hashed and put into the cache
CacheAfterListing(cache, files) ==
    [entries |-> [p \in DOMAIN cache.entries \cup DOMAIN files |->
                    IF p \in DOMAIN files THEN files[p] ELSE cache.entries[p]],
     dirty |-> cache.dirty
               \/ \E p \in DOMAIN files :
                      p \notin DOMAIN cache.entries \/ cache.entries[p] # files[p]]

\* hosting.DiffAssetMetadata(local, remote, merge) and its Diff() lines
NilDiffs == [nil |-> TRUE, lines |-> <<>>]
AssetLine(local, remote, p) ==
    IF p \notin DOMAIN remote THEN <<"+", p>> ELSE <<"~", p>>
DiffAssetMetadata(local, remote, merge) ==
    [nil |-> FALSE,
     lines |->
        LET changed == PathSeq({p \in DOMAIN local :
                                  p \notin DOMAIN remote \/ remote[p] # local[p]})
            gone == PathSeq(DOMAIN remote \ DOMAIN local)
        IN [i \in 1..Len(changed) |-> AssetLine(local, remote, changed[i])]
           \o (IF merge THEN <<>> ELSE [i \in 1..Len(gone) |-> <<"-", gone[i]>>])]

\* isObjectIDHex: 24 characters, all of them hexadecimal digits
isObjectIDHex(s) == Len(s) = 24 /\ \A i \in 1..Len(s) : s[i] \in HexChars

\* ------------------------------------------------------------------ state

VARIABLES
    pc,                  \* position of the run in Run / importApp
    argStrategy,         \* the --strategy argument while Run handles the flags
    rc,                  \* Run's return value (-1 while running)
    err,                 \* the error importApp returned
    calls,               \* history of the collaborator calls of this run
    flagStrategy, flagIncludeHosting, flagYes,
    flagAppID, flagAppName, flagGroupID,
    stitchJSON,          \* the instance-data file of the local directory
    localDir,            \* the declaration held by the local directory
    remote,              \* the deployed apps: client app ID -> entities
    appInstanceData, loadedApp, appData, app, appNotFound, skipDiff, query,
    appName, groupID, asks,         \* locals of askCreateEmptyApp/resolveGroupID
    assetCache, localAssetMetadata, \* locals of the --include-hosting block
    assetMetadataDiffs, diffs,
    start,               \* history: the disk and the deployed apps when the run began
    previous             \* history: what the run before this one applied, if any

flags == <<flagStrategy, flagIncludeHosting, flagYes, flagAppID, flagAppName, flagGroupID>>
disk == <<stitchJSON, localDir>>
locals == <<appInstanceData, loadedApp, appData, app, appNotFound, skipDiff, query>>
createLocals == <<appName, groupID, asks>>
hostingLocals == <<assetCache, localAssetMetadata, assetMetadataDiffs>>
vars == <<pc, argStrategy, rc, err, calls, flags, disk, remote, locals, createLocals,
          hostingLocals, diffs, start, previous>>

\* one collaborator call
Call(op, ok) ==
    [op |-> op, ok |-> ok, msg |-> "", strategy |-> "", merge |-> FALSE,
     payload |-> <<>>, group |-> <<>>, appID |-> ""]
Log(e) == calls' = Append(calls, e)

\* importApp returns e to Run
Return(e) == /\ err' = e
             /\ pc' = "importAppReturned"

NoFile == [exists |-> FALSE, data |-> EmptyMap]
File(d) == [exists |-> TRUE, data |-> d]
\* the instance-data file a run may find: none, or one naming an app that is
\* not deployed (so that --app-id, when given, is seen to override it)
StitchFiles ==
    {NoFile,
     File([f \in {AppIDField, AppNameField} |-> IF f = AppIDField THEN "app0" ELSE "n1"])}

\* the deployed apps: client app ID -> entity collection
Remotes == UNION {[D -> EntityMaps] : D \in SUBSET {ExistingApp.ClientAppID}}

\* no run came before this one
NoRun == [app |-> NilApp, payload |-> <<>>, strategy |-> ""]

Init ==
    /\ pc = "Run"
    /\ argStrategy = NotPassed
    /\ rc = -1
    /\ err = Nil
    /\ calls = <<>>
    /\ flagStrategy = importStrategyMerge
    /\ flagIncludeHosting = FALSE
    /\ flagYes = FALSE
    /\ flagAppID = ""
    /\ flagAppName = ""
    /\ flagGroupID = <<>>
    /\ stitchJSON \in StitchFiles
    /\ localDir \in LocalEntityMaps
    /\ remote \in Remotes
    /\ appInstanceData = EmptyMap
    /\ loadedApp = EmptyMap
    /\ appData = <<>>
    /\ app = NilApp
    /\ appNotFound = FALSE
    /\ skipDiff = FALSE
    /\ query = ""
    /\ appName = ""
    /\ groupID = <<>>
    /\ asks = 0
    /\ assetCache = NewAssetCache
    /\ localAssetMetadata = EmptyMap
    /\ assetMetadataDiffs = NilDiffs
    /\ diffs = <<>>
    /\ start = [stitchJSON |-> stitchJSON, localDir |-> localDir, remote |-> remote]
    /\ previous = NoRun


\* ---------------------------------------------------------------- Run

\* flags.StringVar(&ic.flagStrategy, ..., importStrategyMerge, ""): an omitted
\* flag keeps the default Init gave it
ParsedStrategy(arg, default) == IF arg = NotPassed THEN default ELSE arg

\* the values of --app-name and --project-id a run is given
CreationFlags == {<<"", <<>>>>, <<"n3", GroupA>>}

\* Run, lines 129-142: the flags are parsed by BaseCommand.run, which may fail
Run_ParseFlags ==
    /\ pc = "Run"
    /\ \E s \in StrategyArgs, h \in BOOLEAN, y \in BOOLEAN,
          id \in {"", ExistingApp.ClientAppID}, c \in CreationFlags :
        /\ argStrategy' = s
        /\ flagStrategy' = ParsedStrategy(s, flagStrategy)
        /\ flagIncludeHosting' = h
        /\ flagYes' = y
        /\ flagAppID' = id
        /\ flagAppName' = c[1]
        /\ flagGroupID' = c[2]
    /\ \/ /\ Log(Call("BaseCommand.run", TRUE))
          /\ pc' = "checkStrategy"
          /\ rc' = rc
       \/ /\ calls' = calls \o <<Call("BaseCommand.run", FALSE),
                                 [Call("UI.Error", TRUE) EXCEPT !.msg = "BaseCommand.run"]>>
          /\ pc' = "done"
          /\ rc' = 1
    /\ UNCHANGED <<err, disk, remote, locals, createLocals, hostingLocals, diffs, start, previous>>

\* Run, line 144: the accepted strategies
ValidStrategyAny(s) == TRUE
ValidStrategy(s) == s = importStrategyMerge \/ s = importStrategyReplace

\* Run, lines 144-147; the arguments are not read again
Run_CheckStrategy ==
    /\ pc = "checkStrategy"
    /\ IF ValidStrategy(flagStrategy)
       THEN /\ pc' = "User"
            /\ argStrategy' = NotPassed
            /\ UNCHANGED <<rc, calls>>
       ELSE /\ Log([Call("UI.Error", TRUE) EXCEPT !.msg = "unknown import strategy"])
            /\ rc' = 1
            /\ pc' = "done"
            /\ UNCHANGED argStrategy
    /\ UNCHANGED <<err, flags, disk, remote, locals, createLocals, hostingLocals, diffs, start, previous>>

\* Run, lines 149-154: the exit code for what importApp returned
ExitCodeAlwaysZero(e) == 0
ExitCode(e) == IF e # Nil THEN 1 ELSE 0

Run_Return ==
    /\ pc = "importAppReturned"
    /\ calls' = IF err # Nil
                THEN Append(calls, [Call("UI.Error", TRUE) EXCEPT !.msg = "importApp"])
                ELSE calls
    /\ rc' = ExitCode(err)
    /\ pc' = "done"
    /\ UNCHANGED <<argStrategy, err, flags, disk, remote, locals, createLocals, hostingLocals, diffs, start, previous>>

\* ------------------------------------------------------------ importApp

\* a collaborator call that only succeeds or fails: on failure importApp
\* returns e, on success it moves to position next
Step(at, op, e, next) ==
    /\ pc = at
    /\ \/ /\ Log(Call(op, TRUE))
          /\ pc' = next
          /\ err' = err
       \/ /\ Log(Call(op, FALSE))
          /\ Return(e)

\* lines 158-165
importApp_User ==
    /\ \/ Step("User", "User", PlainErr("User"), "resolveAppDirectory")
       \/ /\ pc = "User"
          /\ Log(Call("User", TRUE))
          /\ Return(PlainErr("ErrNotLoggedIn"))
    /\ UNCHANGED <<argStrategy, rc, flags, disk, remote, locals, createLocals, hostingLocals, diffs, start, previous>>

\* lines 167-170
importApp_resolveAppDirectory ==
    /\ Step("resolveAppDirectory", "resolveAppDirectory", PlainErr("resolveAppDirectory"),
            "resolveAppInstanceData")
    /\ UNCHANGED <<argStrategy, rc, flags, disk, remote, locals, createLocals, hostingLocals, diffs, start, previous>>

\* resolveAppInstanceData, lines 485-504, for a file that can be read
resolveAppInstanceDataFileWins(file, flagID) ==
    IF ~file.exists THEN [f \in {AppIDField} |-> flagID] ELSE file.data
resolveAppInstanceData(file, flagID) ==
    IF ~file.exists
    THEN [f \in {AppIDField} |-> flagID]
    ELSE IF flagID # ""
         THEN [f \in DOMAIN file.data \cup {AppIDField} |->
                 IF f = AppIDField THEN flagID ELSE file.data[f]]
         ELSE file.data

\* lines 172-175
importApp_resolveAppInstanceData ==
    /\ pc = "resolveAppInstanceData"
    /\ \/ /\ Log(Call("UnmarshalFile", TRUE))
          /\ appInstanceData' = resolveAppInstanceData(stitchJSON, flagAppID)
          /\ pc' = "UnmarshalFromDir"
          /\ err' = err
       \/ /\ stitchJSON.exists
          /\ Log(Call("UnmarshalFile", FALSE))
          /\ Return(PlainErr("UnmarshalFile"))
          /\ UNCHANGED appInstanceData
    /\ UNCHANGED <<argStrategy, rc, flags, disk, remote, loadedApp, appData, app, appNotFound,
                   skipDiff, query, createLocals, hostingLocals, diffs, start, previous>>

\* lines 177-180
importApp_UnmarshalFromDir ==
    /\ pc = "UnmarshalFromDir"
    /\ \/ /\ Log(Call("UnmarshalFromDir", TRUE))
          /\ loadedApp' = localDir
          /\ pc' = "Marshal"
          /\ err' = err
       \/ /\ Log(Call("UnmarshalFromDir", FALSE))
          /\ Return(PlainErr("UnmarshalFromDir"))
          /\ UNCHANGED loadedApp
    /\ UNCHANGED <<argStrategy, rc, flags, disk, remote, appInstanceData, appData, app, appNotFound,
                   skipDiff, query, createLocals, hostingLocals, diffs, start, previous>>

\* lines 182-185
importApp_Marshal ==
    /\ pc = "Marshal"
    /\ \/ /\ Log(Call("json.Marshal", TRUE))
          /\ appData' = Marshal(loadedApp)
          /\ pc' = "StitchClient"
          /\ err' = err
       \/ /\ Log(Call("json.Marshal", FALSE))
          /\ Return(PlainErr("json.Marshal"))
          /\ UNCHANGED appData
    /\ UNCHANGED <<argStrategy, rc, flags, disk, remote, appInstanceData, loadedApp, app, appNotFound,
                   skipDiff, query, createLocals, hostingLocals, diffs, start, previous>>

\* lines 187-190
importApp_StitchClient ==
    /\ Step("StitchClient", "StitchClient", PlainErr("StitchClient"), "fetchAppByClientAppID")
    /\ UNCHANGED <<argStrategy, rc, flags, disk, remote, locals, createLocals, hostingLocals, diffs, start, previous>>


\* lines 206-210: what a not-found lookup does to skipDiff and the strategy
SkipDiffAfterLookupNever(notFound) == FALSE
SkipDiffAfterLookup(notFound) == notFound
StrategyAfterLookupKept(notFound, s) == s
StrategyAfterLookup(notFound, s) == IF notFound THEN importStrategyReplace ELSE s

\* lines 339-347: the app the remote system returns for a client app ID: the
\* one an earlier run created, or the one deployed all along
DeployedApp(id, created) == IF id = created.ClientAppID THEN created ELSE ExistingApp

\* lines 339-345: the errors of fetchAppByClientAppID
LookupErrors == {"ErrAppNotFound", "error"}

\* lines 195-203: the switch on the lookup's error; only ErrAppNotFound falls
\* through to the creation branch, the default case returns the error
LookupDrivesCreationAny(e) == TRUE
LookupDrivesCreation(e) == e = "ErrAppNotFound"

\* lines 192-210, with fetchAppByClientAppID (337-348): the lookup finds the app
\* deployed under the client app ID, reports it as not found, or fails otherwise
importApp_fetchAppByClientAppID ==
    /\ pc = "fetchAppByClientAppID"
    /\ \/ /\ AppID(appInstanceData) \in DOMAIN remote
          /\ Log(Call("FetchAppByClientAppID", TRUE))
          /\ app' = DeployedApp(AppID(appInstanceData), previous.app)
          /\ appNotFound' = FALSE
          /\ skipDiff' = SkipDiffAfterLookup(FALSE)
          /\ flagStrategy' = StrategyAfterLookup(FALSE, flagStrategy)
          /\ pc' = "filepathAbs"
          /\ UNCHANGED <<err, query>>
       \/ \E e \in LookupErrors :
            /\ e = "ErrAppNotFound" => AppID(appInstanceData) \notin DOMAIN remote
            /\ Log([Call("FetchAppByClientAppID", FALSE) EXCEPT !.msg = e])
            /\ IF LookupDrivesCreation(e)
               THEN /\ appNotFound' = TRUE
                    /\ query' = IF AppID(appInstanceData) = ""
                                THEN "this app does not exist yet"
                                ELSE "ErrAppNotFound"
                    /\ skipDiff' = SkipDiffAfterLookup(TRUE)
                    /\ flagStrategy' = StrategyAfterLookup(TRUE, flagStrategy)
                    /\ pc' = "askCreateEmptyApp"
                    /\ UNCHANGED <<err, app>>
               ELSE /\ Return(PlainErr("FetchAppByClientAppID"))
                    /\ UNCHANGED <<app, appNotFound, skipDiff, query, flagStrategy>>
    /\ UNCHANGED <<argStrategy, rc, flagIncludeHosting, flagYes, flagAppID, flagAppName, flagGroupID,
                   disk, remote, appInstanceData, loadedApp, appData, createLocals,
                   hostingLocals, diffs, start, previous>>

\* ---------------------------------------------------- askCreateEmptyApp

\* lines 414-416 and 427: the default answer of the "App name" prompt
DefaultAppName(flagName, dataName) == IF flagName # "" THEN flagName ELSE dataName

\* lines 423-425 and 217-219: an app is created only when the user said yes
CreateConfirmedAlways(confirm) == TRUE
CreateConfirmed(confirm) == confirm

\* lines 418-425: importApp returns nil when the user declines (217-219)
askCreateEmptyApp_AskYesNo ==
    /\ pc = "askCreateEmptyApp"
    /\ \/ \E confirm \in BOOLEAN :
            /\ Log([Call("AskYesNo.create", TRUE) EXCEPT
                       !.msg = IF confirm THEN "yes" ELSE "no"])
            /\ IF CreateConfirmed(confirm)
               THEN /\ pc' = "askAppName"
                    /\ err' = err
               ELSE Return(Nil)
       \/ /\ Log(Call("AskYesNo.create", FALSE))
          /\ Return(PlainErr("AskYesNo"))
    /\ UNCHANGED <<argStrategy, rc, flags, disk, remote, locals, createLocals, hostingLocals, diffs, start, previous>>

\* lines 427-430
askCreateEmptyApp_AskAppName ==
    /\ pc = "askAppName"
    /\ \/ /\ \E answer \in {DefaultAppName(flagAppName, AppName(appInstanceData)), "n1"} :
                appName' = answer
          /\ Log(Call("Ask.appName", TRUE))
          /\ pc' = "resolveGroupID"
          /\ err' = err
       \/ /\ Log(Call("Ask.appName", FALSE))
          /\ Return(PlainErr("Ask"))
          /\ UNCHANGED appName
    /\ UNCHANGED <<argStrategy, rc, flags, disk, remote, locals, groupID, asks, hostingLocals, diffs, start, previous>>

\* the projects atlasClient.Groups() lists when there are any
AtlasGroups == <<[Name |-> ProjectName, ID |-> GroupA]>>
\* line 365-368 and 392: groupsByName[name], "" for an unknown name
GroupsByName(groups, name) ==
    IF \E i \in 1..Len(groups) : groups[i].Name = name
    THEN groups[CHOOSE i \in 1..Len(groups) : groups[i].Name = name].ID
    ELSE <<>>

\* resolveGroupID, lines 351-372: the flag wins; otherwise the projects are listed
resolveGroupID_Start ==
    /\ pc = "resolveGroupID"
    /\ IF flagGroupID # <<>>
       THEN /\ groupID' = flagGroupID
            /\ pc' = "FetchAppsByGroupID"
            /\ UNCHANGED <<err, calls>>
       ELSE \/ /\ pc' = "askProject"
               /\ UNCHANGED <<err, calls, groupID>>
            \/ /\ Log([Call("resolveGroupID", FALSE) EXCEPT !.msg = "no available Projects"])
               /\ Return(PlainErr("no available Projects"))
               /\ UNCHANGED groupID
            \/ /\ Log(Call("resolveGroupID", FALSE))
               /\ Return(PlainErr("AtlasClient"))
               /\ UNCHANGED groupID
    /\ UNCHANGED <<argStrategy, rc, flags, disk, remote, locals, appName, asks, hostingLocals, diffs, start, previous>>

\* what the user may answer to "Atlas Project Name or ID"
ProjectResponses == {GroupF, NotHex24, ProjectName, OtherName}
\* atlasClient.GroupByName knows one more project than the listing
GroupByName(name) == IF name = OtherName THEN GroupF ELSE <<>>

\* resolveGroupID, lines 381-408: one round of the prompt loop; the prompts are
\* not entered in the history, only a failure of the whole resolution is
resolveGroupID_Ask ==
    /\ pc = "askProject"
    /\ asks < MaxAsk
    /\ \/ /\ Log(Call("resolveGroupID", FALSE))
          /\ Return(PlainErr("Ask"))
          /\ UNCHANGED <<groupID, asks>>
       \/ \E r \in ProjectResponses :
            IF isObjectIDHex(r)
            THEN /\ groupID' = r
                 /\ asks' = 0
                 /\ pc' = "FetchAppsByGroupID"
                 /\ UNCHANGED <<err, calls>>
            ELSE IF GroupsByName(AtlasGroups, r) # <<>>
            THEN /\ groupID' = GroupsByName(AtlasGroups, r)
                 /\ asks' = 0
                 /\ pc' = "FetchAppsByGroupID"
                 /\ UNCHANGED <<err, calls>>
            ELSE \/ /\ Log(Call("resolveGroupID", FALSE))
                    /\ Return(PlainErr("GroupByName"))
                    /\ UNCHANGED <<groupID, asks>>
                 \/ /\ groupID' = GroupByName(r)
                    /\ IF GroupByName(r) # <<>>
                       THEN /\ pc' = "FetchAppsByGroupID"
                            /\ asks' = 0
                       ELSE /\ pc' = "askProject"
                            /\ asks' = asks + 1
                    /\ UNCHANGED <<err, calls>>
    /\ UNCHANGED <<argStrategy, rc, flags, disk, remote, locals, appName, hostingLocals, diffs, start, previous>>

\* lines 442-446: an app of the chosen name is already in the project
NameTakenNever(names, name) == FALSE
NameTaken(names, name) == name \in names

\* lines 437-446
askCreateEmptyApp_FetchAppsByGroupID ==
    /\ pc = "FetchAppsByGroupID"
    /\ \/ \E names \in {{}, {"n1"}} :
            /\ Log([Call("FetchAppsByGroupID", TRUE) EXCEPT
                       !.group = groupID,
                       !.msg = IF appName \in names THEN "name exists" ELSE ""])
            /\ IF NameTaken(names, appName)
               THEN Return(PlainErr("app already exists"))
               ELSE /\ pc' = "askLocation"
                    /\ err' = err
       \/ /\ Log(Call("FetchAppsByGroupID", FALSE))
          /\ Return(PlainErr("FetchAppsByGroupID"))
    /\ UNCHANGED <<argStrategy, rc, flags, disk, remote, locals, createLocals, hostingLocals, diffs, start, previous>>

\* lines 448-451
askCreateEmptyApp_AskLocation ==
    /\ Step("askLocation", "AskWithOptions.location", PlainErr("AskWithOptions"),
            "askDeploymentModel")
    /\ UNCHANGED <<argStrategy, rc, flags, disk, remote, locals, createLocals, hostingLocals, diffs, start, previous>>

\* lines 453-456
askCreateEmptyApp_AskDeploymentModel ==
    /\ Step("askDeploymentModel", "AskWithOptions.deploymentModel",
            PlainErr("AskWithOptions"), "CreateEmptyApp")
    /\ UNCHANGED <<argStrategy, rc, flags, disk, remote, locals, createLocals, hostingLocals, diffs, start, previous>>

\* lines 458-464: the new app is deployed empty; askCreateEmptyApp returns and
\* its locals end with it
askCreateEmptyApp_CreateEmptyApp ==
    /\ pc = "CreateEmptyApp"
    /\ \/ /\ Log([Call("CreateEmptyApp", TRUE) EXCEPT !.group = groupID, !.msg = appName])
          /\ app' = CreatedApp(groupID, appName)
          /\ remote' = [id \in DOMAIN remote \cup {CreatedApp(groupID, appName).ClientAppID} |->
                          IF id \in DOMAIN remote THEN remote[id] ELSE EmptyMap]
          /\ pc' = "writeAppConfigToFile"
          /\ err' = err
       \/ /\ Log([Call("CreateEmptyApp", FALSE) EXCEPT !.group = groupID, !.msg = appName])
          /\ Return(PlainErr("CreateEmptyApp"))
          /\ UNCHANGED <<app, remote>>
    /\ appName' = ""
    /\ groupID' = <<>>
    /\ UNCHANGED <<argStrategy, rc, flags, disk, appInstanceData, loadedApp, appData, appNotFound,
                   skipDiff, query, asks, hostingLocals, diffs, start, previous>>

\* lines 221-222: the created app's client app ID and name go into the instance data
WithCreatedAppNameOnly(data, a) ==
    [f \in DOMAIN data \cup {AppNameField} |->
        IF f = AppNameField THEN a.Name ELSE data[f]]
WithCreatedApp(data, a) ==
    [f \in DOMAIN data \cup {AppIDField, AppNameField} |->
        IF f = AppIDField THEN a.ClientAppID
        ELSE IF f = AppNameField THEN a.Name
        ELSE data[f]]

\* lines 221-226
importApp_writeAppConfigToFile ==
    /\ pc = "writeAppConfigToFile"
    /\ appInstanceData' = WithCreatedApp(appInstanceData, app)
    /\ \/ /\ Log(Call("writeAppConfigToFile", TRUE))
          /\ stitchJSON' = File(appInstanceData')
          /\ pc' = "filepathAbs"
          /\ err' = err
       \/ /\ Log(Call("writeAppConfigToFile", FALSE))
          /\ Return(errCreateAppSyncFailure("writeAppConfigToFile"))
          /\ UNCHANGED stitchJSON
    /\ UNCHANGED <<argStrategy, rc, flags, localDir, remote, loadedApp, appData, app, appNotFound,
                   skipDiff, query, createLocals, hostingLocals, diffs, start, previous>>


\* ------------------------------------------------ importApp: hosting block

\* line 275: the diff is computed unless -y was given or the app is new
NeedsDiffAlways(yes, skip) == TRUE
NeedsDiff(yes, skip) == ~yes /\ ~skip
AfterAssets == IF NeedsDiff(flagYes, skipDiff) THEN "Diff" ELSE "Import"

\* lines 230-234
importApp_filepathAbs ==
    /\ Step("filepathAbs", "filepath.Abs", PlainErr("filepath.Abs"),
            IF flagIncludeHosting THEN "MetadataFileToAssetDescriptions" ELSE AfterAssets)
    /\ UNCHANGED <<argStrategy, rc, flags, disk, remote, locals, createLocals, hostingLocals, diffs, start, previous>>

\* lines 235-238
importApp_MetadataFileToAssetDescriptions ==
    /\ Step("MetadataFileToAssetDescriptions", "MetadataFileToAssetDescriptions",
            errIncludeHosting("MetadataFileToAssetDescriptions"), "getAssetCachePath")
    /\ UNCHANGED <<argStrategy, rc, flags, disk, remote, locals, createLocals, hostingLocals, diffs, start, previous>>

\* lines 240-243
importApp_getAssetCachePath ==
    /\ Step("getAssetCachePath", "getAssetCachePath", PlainErr("getAssetCachePath"),
            "CacheFileToAssetCache")
    /\ UNCHANGED <<argStrategy, rc, flags, disk, remote, locals, createLocals, hostingLocals, diffs, start, previous>>

\* lines 245-251: an absent cache file gives a new cache, any other failure aborts
importApp_CacheFileToAssetCache ==
    /\ pc = "CacheFileToAssetCache"
    /\ \/ \E c \in AssetMaps :
            /\ Log(Call("CacheFileToAssetCache", TRUE))
            /\ assetCache' = [entries |-> c, dirty |-> FALSE]
            /\ pc' = "ListLocalAssetMetadata"
            /\ err' = err
       \/ /\ Log([Call("CacheFileToAssetCache", FALSE) EXCEPT !.msg = "IsNotExist"])
          /\ assetCache' = NewAssetCache
          /\ pc' = "ListLocalAssetMetadata"
          /\ err' = err
       \/ /\ Log(Call("CacheFileToAssetCache", FALSE))
          /\ Return(PlainErr("CacheFileToAssetCache"))
          /\ UNCHANGED assetCache
    /\ UNCHANGED <<argStrategy, rc, flags, disk, remote, locals, createLocals, localAssetMetadata,
                   assetMetadataDiffs, diffs, start, previous>>

\* line 260: the cache is written when it is dirty
ShouldUpdateCacheAlways(cache) == TRUE
ShouldUpdateCache(cache) == cache.dirty

\* lines 253-258
importApp_ListLocalAssetMetadata ==
    /\ pc = "ListLocalAssetMetadata"
    /\ \/ \E files \in AssetMaps :
            /\ localAssetMetadata' = files
            /\ assetCache' = CacheAfterListing(assetCache, files)
            /\ Log([Call("ListLocalAssetMetadata", TRUE) EXCEPT
                       !.msg = IF assetCache'.dirty THEN "dirty" ELSE "clean"])
            /\ pc' = IF ShouldUpdateCache(assetCache') THEN "UpdateCacheFile"
                     ELSE "ListAssetsForAppID"
            /\ err' = err
       \/ /\ Log(Call("ListLocalAssetMetadata", FALSE))
          /\ Return(errIncludeHosting("ListLocalAssetMetadata"))
          /\ UNCHANGED <<assetCache, localAssetMetadata>>
    /\ UNCHANGED <<argStrategy, rc, flags, disk, remote, locals, createLocals, assetMetadataDiffs, diffs, start, previous>>

\* lines 261-263: the error of UpdateCacheFile is handed to UI.Error and
\* importApp does not return it
CacheWriteAbortsOnFailure(ok) == ~ok
CacheWriteAborts(ok) == FALSE

\* lines 260-264: a failed write is reported and the run goes on
importApp_UpdateCacheFile ==
    /\ pc = "UpdateCacheFile"
    /\ \E ok \in BOOLEAN :
         /\ calls' = IF ok
                     THEN calls \o <<Call("UpdateCacheFile", TRUE)>>
                     ELSE calls \o <<Call("UpdateCacheFile", FALSE),
                                     [Call("UI.Error", TRUE) EXCEPT !.msg = "UpdateCacheFile"]>>
         /\ IF CacheWriteAborts(ok)
            THEN Return(PlainErr("UpdateCacheFile"))
            ELSE /\ pc' = "ListAssetsForAppID"
                 /\ err' = err
    /\ UNCHANGED <<argStrategy, rc, flags, disk, remote, locals, createLocals, hostingLocals, diffs, start, previous>>

\* line 271: the merge argument of hosting.DiffAssetMetadata
MergeFlagNegated(strategy) == strategy # importStrategyMerge
MergeFlag(strategy) == strategy = importStrategyMerge

\* lines 266-272; the block's locals end with it
importApp_ListAssetsForAppID ==
    /\ pc = "ListAssetsForAppID"
    /\ \/ \E remoteAssetMetadata \in AssetMaps :
            /\ calls' = calls \o
                 <<[Call("ListAssetsForAppID", TRUE) EXCEPT !.group = app.GroupID, !.appID = app.ID],
                   [Call("DiffAssetMetadata", TRUE) EXCEPT !.merge = MergeFlag(flagStrategy)]>>
            /\ assetMetadataDiffs' =
                 DiffAssetMetadata(localAssetMetadata, remoteAssetMetadata, MergeFlag(flagStrategy))
            /\ pc' = AfterAssets
            /\ err' = err
       \/ /\ Log([Call("ListAssetsForAppID", FALSE) EXCEPT !.group = app.GroupID, !.appID = app.ID])
          /\ Return(errIncludeHosting("ListAssetsForAppID"))
          /\ UNCHANGED assetMetadataDiffs
    /\ assetCache' = NewAssetCache
    /\ localAssetMetadata' = EmptyMap
    /\ UNCHANGED <<argStrategy, rc, flags, disk, remote, locals, createLocals, diffs, start, previous>>

\* ------------------------------------------- importApp: diff and confirm

\* lines 282-285: the asset diff lines follow the configuration diff lines
CombinedDiffConfigOnly(config, hosting, assetDiffs) == config
CombinedDiff(config, hosting, assetDiffs) ==
    IF hosting /\ ~assetDiffs.nil THEN config \o assetDiffs.lines ELSE config

\* the arguments of stitchClient.Diff and stitchClient.Import
RemoteCall(op, ok) ==
    [Call(op, ok) EXCEPT !.group = app.GroupID, !.appID = app.ID,
                         !.payload = appData, !.strategy = flagStrategy]

\* line 276: stitchClient.Diff(app.GroupID, app.ID, appData, ic.flagStrategy)
DiffCall(ok) == RemoteCall("Diff", ok)

\* line 306: stitchClient.Import(app.GroupID, app.ID, appData, ic.flagStrategy)
ImportCallMerge(ok) == [RemoteCall("Import", ok) EXCEPT !.strategy = importStrategyMerge]
ImportCall(ok) == RemoteCall("Import", ok)

\* line 287: nothing to do when the combined diff has no line
IsNoOpNever(d) == FALSE
IsNoOp(d) == Len(d) = 0

\* lines 276-294
importApp_Diff ==
    /\ pc = "Diff"
    /\ \/ /\ diffs' = CombinedDiff(ConfigDiff(DiffCall(TRUE).payload, remote[app.ClientAppID],
                                               DiffCall(TRUE).strategy),
                                    flagIncludeHosting, assetMetadataDiffs)
          /\ IF IsNoOp(diffs')
             THEN /\ calls' = calls \o <<DiffCall(TRUE),
                                         [Call("UI.Info", TRUE) EXCEPT !.msg = "nothing to do"]>>
                  /\ Return(Nil)
             ELSE /\ Log(DiffCall(TRUE))
                  /\ pc' = "AskYesNo"
                  /\ err' = err
       \/ /\ Log(DiffCall(FALSE))
          /\ Return(errDiffFailure("Diff"))
          /\ UNCHANGED diffs
    /\ UNCHANGED <<argStrategy, rc, flags, disk, remote, locals, createLocals, hostingLocals, start, previous>>

\* line 301: the import goes on when the user confirmed
ProceedsAlways(confirm) == TRUE
Proceeds(confirm) == confirm

\* lines 296-303
importApp_AskYesNo ==
    /\ pc = "AskYesNo"
    /\ \/ \E confirm \in BOOLEAN :
            /\ Log([Call("AskYesNo.confirm", TRUE) EXCEPT
                       !.msg = IF confirm THEN "yes" ELSE "no"])
            /\ IF Proceeds(confirm)
               THEN /\ pc' = "Import"
                    /\ err' = err
               ELSE Return(Nil)
       \/ /\ Log(Call("AskYesNo.confirm", FALSE))
          /\ Return(PlainErr("AskYesNo"))
    /\ UNCHANGED <<argStrategy, rc, flags, disk, remote, locals, createLocals, hostingLocals, diffs, start, previous>>

\* --------------------------------------------- importApp: apply and re-sync

\* line 312: the assets are imported when --include-hosting computed a diff
HostingRequestedAlways(hosting, assetDiffs) == TRUE
HostingRequested(hosting, assetDiffs) == hosting /\ ~assetDiffs.nil

\* lines 306-310
importApp_Import ==
    /\ pc = "Import"
    /\ \/ /\ Log(ImportCall(TRUE))
          /\ remote' = [remote EXCEPT ![app.ClientAppID] =
                          ApplyPayload(ImportCall(TRUE).payload, @,
                                       ImportCall(TRUE).strategy)]
          /\ pc' = IF HostingRequested(flagIncludeHosting, assetMetadataDiffs)
                   THEN "ImportHosting" ELSE "Export"
          /\ err' = err
       \/ /\ Log(ImportCall(FALSE))
          /\ Return(errImportFailure("Import"))
          /\ UNCHANGED remote
    /\ UNCHANGED <<argStrategy, rc, flags, disk, locals, createLocals, hostingLocals, diffs, start, previous>>

\* lines 312-318
importApp_ImportHosting ==
    /\ Step("ImportHosting", "ImportHosting", errHostingImportFailure("ImportHosting"), "Export")
    /\ UNCHANGED <<argStrategy, rc, flags, disk, remote, locals, createLocals, hostingLocals, diffs, start, previous>>

\* lines 320-324
importApp_Export ==
    /\ Step("Export", "Export", errImportAppSyncFailure("Export"), "writeToDirectory")
    /\ UNCHANGED <<argStrategy, rc, flags, disk, remote, locals, createLocals, hostingLocals, diffs, start, previous>>

\* lines 328-334: the exported app overwrites the local directory
importApp_writeToDirectory ==
    /\ pc = "writeToDirectory"
    /\ \/ /\ Log(Call("writeToDirectory", TRUE))
          /\ localDir' = remote[app.ClientAppID]
          /\ Return(Nil)
       \/ /\ Log(Call("writeToDirectory", FALSE))
          /\ Return(errImportAppSyncFailure("writeToDirectory"))
          /\ UNCHANGED localDir
    /\ UNCHANGED <<argStrategy, rc, flags, stitchJSON, remote, locals, createLocals, hostingLocals, diffs, start, previous>>

\* ------------------------------------------------------- specification

Next ==
    \/ Run_ParseFlags
    \/ Run_CheckStrategy
    \/ Run_Return
    \/ importApp_User
    \/ importApp_resolveAppDirectory
    \/ importApp_resolveAppInstanceData
    \/ importApp_UnmarshalFromDir
    \/ importApp_Marshal
    \/ importApp_StitchClient
    \/ importApp_fetchAppByClientAppID
    \/ askCreateEmptyApp_AskYesNo
    \/ askCreateEmptyApp_AskAppName
    \/ resolveGroupID_Start
    \/ resolveGroupID_Ask
    \/ askCreateEmptyApp_FetchAppsByGroupID
    \/ askCreateEmptyApp_AskLocation
    \/ askCreateEmptyApp_AskDeploymentModel
    \/ askCreateEmptyApp_CreateEmptyApp
    \/ importApp_writeAppConfigToFile
    \/ importApp_filepathAbs
    \/ importApp_MetadataFileToAssetDescriptions
    \/ importApp_getAssetCachePath
    \/ importApp_CacheFileToAssetCache
    \/ importApp_ListLocalAssetMetadata
    \/ importApp_UpdateCacheFile
    \/ importApp_ListAssetsForAppID
    \/ importApp_Diff
    \/ importApp_AskYesNo
    \/ importApp_Import
    \/ importApp_ImportHosting
    \/ importApp_Export
    \/ importApp_writeToDirectory

Spec == Init /\ [][Next]_vars

\* lines 128-155: Run is invoked a second time, with the arguments of the run
\* that has just applied its payload and on the directory and the deployed
\* apps that run left behind, which name the app that run applied to; the
\* flags parse to the values they had (the strategy to the one that run
\* applied) and every local of Run and importApp starts afresh
Rerun ==
    /\ pc = "done"
    /\ previous = NoRun
    /\ \E i \in 1..Len(calls) : calls[i].op = "Import" /\ calls[i].ok
    /\ AppID(resolveAppInstanceData(stitchJSON, flagAppID)) = app.ClientAppID
    /\ previous' = [app |-> app, payload |-> appData, strategy |-> flagStrategy]
    /\ start' = [stitchJSON |-> stitchJSON, localDir |-> localDir, remote |-> remote]
    /\ calls' = <<Call("BaseCommand.run", TRUE)>>
    /\ pc' = "checkStrategy"
    /\ argStrategy' = flagStrategy
    /\ rc' = -1
    /\ err' = Nil
    /\ appInstanceData' = EmptyMap
    /\ loadedApp' = EmptyMap
    /\ appData' = <<>>
    /\ app' = NilApp
    /\ appNotFound' = FALSE
    /\ skipDiff' = FALSE
    /\ query' = ""
    /\ appName' = ""
    /\ groupID' = <<>>
    /\ asks' = 0
    /\ assetCache' = NewAssetCache
    /\ localAssetMetadata' = EmptyMap
    /\ assetMetadataDiffs' = NilDiffs
    /\ diffs' = <<>>
    /\ UNCHANGED <<flags, disk, remote>>

NextRerun == Next \/ Rerun

\* a run, possibly followed by a second run with the same arguments
SpecRerun == Init /\ [][NextRerun]_vars


\* ------------------------------------------------------------ properties

Ended == pc \in {"importAppReturned", "done"}
Indices(op) == {i \in 1..Len(calls) : calls[i].op = op}
Called(op) == Indices(op) # {}
Succeeded(op) == \E i \in Indices(op) : calls[i].ok
Failed(op) == \E i \in Indices(op) : ~calls[i].ok
Declined(op) == \E i \in Indices(op) : calls[i].ok /\ calls[i].msg = "no"
LookupNotFound ==
    \E i \in Indices("FetchAppByClientAppID") : calls[i].msg = "ErrAppNotFound"
RemoteMutations == {"CreateEmptyApp", "Import", "ImportHosting"}
LocalWrites == {"writeAppConfigToFile", "writeToDirectory"}
DiskUntouched == stitchJSON = start.stitchJSON /\ localDir = start.localDir

\* C1: in a run whose lookup reported the app as not found, stitchClient.Diff is
\* never called and every use of the strategy (the merge argument of
\* DiffAssetMetadata, the strategy of Import) is replace, whatever was passed.
C1_NotFoundForcesReplace ==
    LookupNotFound =>
        /\ ~Called("Diff")
        /\ \A i \in Indices("DiffAssetMetadata") : ~calls[i].merge
        /\ \A i \in Indices("Import") : calls[i].strategy = "replace"
        /\ (pc \notin {"fetchAppByClientAppID"} => skipDiff /\ flagStrategy = "replace")

C1_Witness ==
    /\ LookupNotFound
    /\ ~flagYes
    /\ Called("DiffAssetMetadata")
    /\ Succeeded("Import")

\* C2: once the user declined the confirmation prompt that follows the diff, the
\* run has ended; CreateEmptyApp, Import and ImportHosting were not called and
\* are not called, and the local directory is as it was.
C2_DeclineMutatesNothing ==
    Declined("AskYesNo.confirm") =>
        /\ Ended
        /\ err = Nil
        /\ \A i \in 1..Len(calls) : calls[i].op \notin RemoteMutations \cup LocalWrites
        /\ remote = start.remote
        /\ DiskUntouched

C2_Witness ==
    /\ Declined("AskYesNo.confirm")
    /\ pc = "done"
    /\ rc = 0
    /\ Len(diffs) > 0

\* the lines of the diff a found app's run is about: the configuration diff of
\* the payload against the deployed app, then the asset diff if hosting is included
ConfigLinesNow == ConfigDiff(appData, remote[app.ClientAppID], flagStrategy)
AssetLinesNow == IF flagIncludeHosting THEN assetMetadataDiffs.lines ELSE <<>>

\* C3: when the diff was computed and the combined diff (configuration lines
\* plus, with --include-hosting, asset lines) is empty, importApp has returned
\* nil after the no-op notice, Run returns 0, and no confirmation, Import,
\* ImportHosting, Export or writeToDirectory is called.
C3_EmptyDiffEndsRun ==
    (Succeeded("Diff") /\ ConfigLinesNow = <<>> /\ AssetLinesNow = <<>> /\ ~Called("Import")) =>
        /\ Ended
        /\ err = Nil
        /\ calls[Len(calls)].op = "UI.Info" /\ calls[Len(calls)].msg = "nothing to do"
        /\ calls[Len(calls) - 1].op = "Diff"
        /\ (pc = "done" => rc = 0)
        /\ \A i \in 1..Len(calls) :
              calls[i].op \notin {"AskYesNo.confirm", "Import", "ImportHosting",
                                  "Export", "writeToDirectory"}

C3_Witness ==
    /\ Succeeded("Diff")
    /\ flagIncludeHosting
    /\ ConfigLinesNow = <<>> /\ AssetLinesNow = <<>>
    /\ pc = "done"
    /\ rc = 0


Range(q) == {q[i] : i \in 1..Len(q)}
Before(i, op) == \E j \in Indices(op) : j < i /\ calls[j].ok

\* C4: an entity present only remotely is preserved under merge (no delete line,
\* still deployed with its body after the payload is applied) and deleted under
\* replace; an entity present only locally is a create under both strategies;
\* local {P1} against remote {P2} gives [create P1] under merge and
\* [create P1, delete P2] under replace. A found app's run shows the lines of
\* its strategy and its Import leaves the deployed app as that strategy says.
C4_RemoteOnlyPreservedOrDeleted ==
    /\ app.ClientAppID \in DOMAIN remote =>
         LET local == Decode(appData)
             deployed == remote[app.ClientAppID]
             merged == ConfigDiff(appData, deployed, "merge")
             replaced == ConfigDiff(appData, deployed, "replace")
         IN /\ \A n \in DOMAIN deployed \ DOMAIN local :
                  /\ <<"delete", n>> \notin Range(merged)
                  /\ n \in DOMAIN ApplyPayload(appData, deployed, "merge")
                  /\ ApplyPayload(appData, deployed, "merge")[n] = deployed[n]
                  /\ <<"delete", n>> \in Range(replaced)
                  /\ n \notin DOMAIN ApplyPayload(appData, deployed, "replace")
            /\ \A n \in DOMAIN local \ DOMAIN deployed :
                  /\ <<"create", n>> \in Range(merged)
                  /\ <<"create", n>> \in Range(replaced)
            /\ (DOMAIN local = {"P1"} /\ DOMAIN deployed = {"P2"}) =>
                  /\ merged = << <<"create", "P1">> >>
                  /\ replaced = << <<"create", "P1">>, <<"delete", "P2">> >>
    /\ (Succeeded("Diff") /\ ~Called("Import")) =>
         \A n \in DOMAIN remote[app.ClientAppID] \ DOMAIN Decode(appData) :
            <<"delete", n>> \in Range(diffs) <=> flagStrategy = "replace"
    /\ (Succeeded("Import") /\ ~LookupNotFound) =>
         \A n \in DOMAIN start.remote[app.ClientAppID] \ DOMAIN Decode(appData) :
            IF flagStrategy = "merge"
            THEN /\ n \in DOMAIN remote[app.ClientAppID]
                 /\ remote[app.ClientAppID][n] = start.remote[app.ClientAppID][n]
            ELSE n \notin DOMAIN remote[app.ClientAppID]

C4_Witness ==
    /\ Succeeded("Diff")
    /\ Succeeded("Import")
    /\ flagStrategy = "merge"
    /\ DOMAIN Decode(appData) = {"P1"}
    /\ DOMAIN start.remote[app.ClientAppID] = {"P2"}
    /\ diffs = << <<"create", "P1">> >>
    /\ DOMAIN remote[app.ClientAppID] = {"P1", "P2"}

\* C5: Import, ImportHosting (only with --include-hosting), Export and
\* writeToDirectory are each called at most once, in this order, each only after
\* every earlier one succeeded; a failed Diff, Import or ImportHosting ends the
\* run with that error and no further call but the report of the error.
C5_ApplyStepsInOrder ==
    /\ \A op \in {"Diff", "Import", "ImportHosting", "Export", "writeToDirectory"} :
          Cardinality(Indices(op)) <= 1
    /\ \A i \in Indices("Import") : \A j \in Indices("Diff") : j < i /\ calls[j].ok
    /\ \A i \in Indices("ImportHosting") : flagIncludeHosting /\ Before(i, "Import")
    /\ \A i \in Indices("Export") :
          /\ Before(i, "Import")
          /\ flagIncludeHosting => Before(i, "ImportHosting")
          /\ \A j \in Indices("ImportHosting") : j < i
    /\ \A i \in Indices("writeToDirectory") : Before(i, "Export")
    /\ \A i \in 1..Len(calls) :
          (calls[i].op \in {"Diff", "Import", "ImportHosting"} /\ ~calls[i].ok) =>
              /\ Ended
              /\ err # Nil
              /\ err.cause = calls[i].op
              /\ pc = "done" => rc = 1
              /\ \A j \in (i + 1)..Len(calls) : calls[j].op = "UI.Error"

C5_Witness ==
    /\ Succeeded("Diff")
    /\ Succeeded("ImportHosting")
    /\ Succeeded("writeToDirectory")
    /\ pc = "done"

\* C6: a failed Export or writeToDirectory is returned as the sync-after-import
\* error and as no other; that error is returned only when Import (and
\* ImportHosting, with --include-hosting) had succeeded before the failing call.
C6_SyncErrorIsDistinct ==
    /\ \A i \in 1..Len(calls) :
          (calls[i].op \in {"Export", "writeToDirectory"} /\ ~calls[i].ok) =>
              /\ Ended
              /\ err.class = "ImportAppSyncFailure"
              /\ err.cause = calls[i].op
    /\ err.class = "ImportAppSyncFailure" =>
          \E i \in 1..Len(calls) :
              /\ calls[i].op \in {"Export", "writeToDirectory"}
              /\ ~calls[i].ok
              /\ Before(i, "Import")
              /\ flagIncludeHosting => Before(i, "ImportHosting")
    /\ (err # Nil /\ ~Succeeded("Import")) => err.class # "ImportAppSyncFailure"
    /\ err.class = "ImportFailure" => ~Called("Export") /\ Failed("Import")

C6_Witness ==
    /\ Failed("writeToDirectory")
    /\ Succeeded("ImportHosting")
    /\ err.class = "ImportAppSyncFailure"
    /\ pc = "done"
    /\ rc = 1

\* C7: when a run aborts because local data is bad (the declaration, the
\* instance-data file or the hosting metadata file cannot be loaded), no remote
\* mutation has happened earlier in the run.
C7_BadLocalDataBeforeMutation ==
    (Ended /\ err.cause \in {"UnmarshalFile", "UnmarshalFromDir",
                             "MetadataFileToAssetDescriptions"}) =>
        \A i \in 1..Len(calls) : ~(calls[i].op \in RemoteMutations /\ calls[i].ok)

\* C8: with a strategy other than merge and replace, Run reports the unknown
\* strategy (when the arguments parsed) and returns 1 with nothing else done: no
\* call of importApp, the disk and the deployed apps as they were. An omitted
\* --strategy is merge.
C8_UnknownStrategyRejected ==
    /\ (pc = "checkStrategy" /\ argStrategy = NotPassed) => flagStrategy = "merge"
    /\ (flagStrategy \notin {"merge", "replace"} /\ pc \notin {"Run", "checkStrategy"}) =>
          /\ pc = "done"
          /\ rc = 1
          /\ Len(calls) = 2
          /\ calls[1].op = "BaseCommand.run"
          /\ calls[2].op = "UI.Error"
          /\ calls[1].ok => calls[2].msg = "unknown import strategy"
          /\ DiskUntouched
          /\ remote = start.remote

C8_Witness ==
    /\ flagStrategy = "bogus"
    /\ pc = "done"
    /\ rc = 1
    /\ calls[1].ok
    /\ calls[2].msg = "unknown import strategy"

\* C9 as stated: Run returns 1 exactly when some error was reported through
\* UI.Error during the run.
C9_ExitCodeIffErrorReported ==
    pc = "done" => (rc = 1 <=> Called("UI.Error"))

\* C9 amended: Run returns 0 or 1, and 1 exactly when Run itself reported an
\* error (the arguments, the strategy, or the error importApp returned); the
\* failed cache write that importApp reports does not change the exit code.
C9_ExitCodeIffRunReported ==
    /\ pc # "done" => rc = -1
    /\ pc = "done" =>
          /\ rc \in {0, 1}
          /\ rc = 1 <=> \E i \in Indices("UI.Error") : calls[i].msg # "UpdateCacheFile"
          /\ rc = 1 <=> calls[Len(calls)].op = "UI.Error"
                        /\ calls[Len(calls)].msg # "UpdateCacheFile"

C9_Witness ==
    /\ pc = "done"
    /\ rc = 0
    /\ Called("UI.Error")
    /\ Succeeded("writeToDirectory")

\* C10: UpdateCacheFile is called at most once, only with --include-hosting and
\* right after a listing of the local assets that left the cache dirty, hence
\* before the remote listing, the diff, the confirmation and the Import; a dirty
\* cache is written before the remote listing. Without --include-hosting the
\* cache is neither loaded nor written.
C10_CacheWrittenOnceWhenDirty ==
    /\ Cardinality(Indices("UpdateCacheFile")) <= 1
    /\ \A i \in Indices("UpdateCacheFile") :
          /\ flagIncludeHosting
          /\ i > 1
          /\ calls[i - 1].op = "ListLocalAssetMetadata"
          /\ calls[i - 1].ok
          /\ calls[i - 1].msg = "dirty"
          /\ \A j \in 1..i :
                calls[j].op \notin {"ListAssetsForAppID", "DiffAssetMetadata", "Diff",
                                    "AskYesNo.confirm", "Import", "ImportHosting"}
    /\ \A i \in Indices("ListAssetsForAppID") :
          (\E k \in Indices("ListLocalAssetMetadata") : calls[k].msg = "dirty") =>
              \E j \in Indices("UpdateCacheFile") : j < i
    /\ ~flagIncludeHosting =>
          ~Called("CacheFileToAssetCache") /\ ~Called("UpdateCacheFile")

C10_Witness ==
    /\ Succeeded("UpdateCacheFile")
    /\ Declined("AskYesNo.confirm")
    /\ pc = "done"

\* C11: a failed write of the asset cache file is reported through UI.Error
\* and nothing else: the call that follows it is ListAssetsForAppID, as after
\* a successful write, and the run never ends with the write's error. A cache
\* file that cannot be read for another reason than not existing ends the run
\* with that error, and a cache file that does not exist gives the run an
\* empty cache and no error.
C11_CacheWriteFailureDoesNotAbort ==
    /\ \A i \in Indices("UpdateCacheFile") :
         LET after == IF calls[i].ok THEN i + 1 ELSE i + 2
         IN  /\ ~calls[i].ok =>
                  /\ calls[i + 1].op = "UI.Error"
                  /\ calls[i + 1].msg = "UpdateCacheFile"
             /\ IF Len(calls) >= after
                THEN calls[after].op = "ListAssetsForAppID"
                ELSE pc = "ListAssetsForAppID" /\ err = Nil
    /\ err # PlainErr("UpdateCacheFile")
    /\ \A i \in Indices("CacheFileToAssetCache") :
         /\ (~calls[i].ok /\ calls[i].msg # "IsNotExist") =>
               /\ Ended
               /\ err = PlainErr("CacheFileToAssetCache")
               /\ \A j \in (i + 1)..Len(calls) : calls[j].op = "UI.Error"
         /\ (~calls[i].ok /\ calls[i].msg = "IsNotExist") =>
               /\ err # PlainErr("CacheFileToAssetCache")
               /\ IF Len(calls) > i
                  THEN calls[i + 1].op = "ListLocalAssetMetadata"
                  ELSE /\ pc = "ListLocalAssetMetadata"
                       /\ assetCache = [entries |-> <<>>, dirty |-> FALSE]

C11_Witness ==
    /\ \E i \in Indices("CacheFileToAssetCache") : calls[i].msg = "IsNotExist"
    /\ Failed("UpdateCacheFile")
    /\ Succeeded("ListAssetsForAppID")
    /\ Succeeded("writeToDirectory")
    /\ pc = "done"
    /\ rc = 0

C13_NoLocalWriteBeforeImport ==
    \A op \in LocalWrites : \A i \in Indices(op) :
        calls[i].ok => Before(i, "Import")

\* C13, amended: the declaration is overwritten with the exported app
\* (writeToDirectory) only after stitchClient.Import has returned success; the
\* one write that comes before Import is that of the instance-data file right
\* after a successful CreateEmptyApp, and it puts the new app's client app ID
\* and name, as the remote system returned them, into the file.
C13_WriteBackAfterImportExceptCreation ==
    /\ \A i \in Indices("writeToDirectory") : Before(i, "Import")
    /\ localDir # start.localDir => Succeeded("Import")
    /\ \A i \in Indices("writeAppConfigToFile") :
         /\ ~Before(i, "Import")
         /\ i > 1
         /\ calls[i - 1].op = "CreateEmptyApp"
         /\ calls[i - 1].ok
         /\ calls[i].ok =>
               /\ stitchJSON.exists
               /\ stitchJSON.data["app_id"] = "app2"
               /\ stitchJSON.data["app_id"] = app.ClientAppID
               /\ stitchJSON.data["name"] = calls[i - 1].msg
               /\ stitchJSON.data["name"] = app.Name
    /\ stitchJSON # start.stitchJSON => Succeeded("CreateEmptyApp")

C13_Witness ==
    /\ Succeeded("writeAppConfigToFile")
    /\ ~Called("Import")
    /\ stitchJSON.exists
    /\ stitchJSON.data["app_id"] = "app2"
    /\ pc = "filepathAbs"

\* C14 as stated: in a run whose lookup found the app, stitchClient.Diff has
\* returned before stitchClient.Import is called, with -y as without.
C14_DiffBeforeImportWhenFound ==
    \A i \in Indices("Import") :
        Succeeded("FetchAppByClientAppID") => Before(i, "Diff")

\* C14, amended: stitchClient.Diff is skipped when the app is new and also when
\* -y was given. In a run whose lookup found the app and that was started
\* without -y, Diff has returned and the user has confirmed before Import is
\* called; in a run with -y, or for a new app, neither Diff nor the
\* confirmation prompt is called at all.
C14_DiffSkippedWithYesOrNewApp ==
    /\ (flagYes \/ LookupNotFound) =>
          /\ ~Called("Diff")
          /\ ~Called("AskYesNo.confirm")
    /\ \A i \in Indices("Import") :
         (~flagYes /\ ~LookupNotFound) =>
            /\ Before(i, "Diff")
            /\ calls[i - 1].op = "AskYesNo.confirm"
            /\ calls[i - 1].msg = "yes"

C14_Witness ==
    /\ flagYes
    /\ Succeeded("FetchAppByClientAppID")
    /\ Succeeded("Import")
    /\ ~Called("Diff")
    /\ remote # start.remote

\* C15: in a run whose lookup reported the app as not found, when the user
\* declined the creation, a prompt or lookup of the creation step failed, the
\* app name was taken or CreateEmptyApp failed, the run has ended there: no
\* app was created, nothing was written locally and none of Diff, Import,
\* ImportHosting, Export is called; declining returns nil, the others an
\* error. Import is called in such a run only after CreateEmptyApp succeeded
\* and the new client app ID and name were written to the instance-data file.
CreationSteps ==
    {"AskYesNo.create", "Ask.appName", "resolveGroupID", "FetchAppsByGroupID",
     "AskWithOptions.location", "AskWithOptions.deploymentModel", "CreateEmptyApp"}
CreationStopped ==
    \/ Declined("AskYesNo.create")
    \/ \E op \in CreationSteps : Failed(op)
    \/ \E i \in Indices("FetchAppsByGroupID") : calls[i].msg = "name exists"
C15_CreationProducesAppOrEndsRun ==
    /\ CreationStopped =>
          /\ LookupNotFound
          /\ Ended
          /\ ~Succeeded("CreateEmptyApp")
          /\ Declined("AskYesNo.create") => ~Called("CreateEmptyApp")
          /\ remote = start.remote
          /\ DiskUntouched
          /\ \A op \in LocalWrites \cup {"Diff", "Import", "ImportHosting", "Export"} :
                ~Called(op)
          /\ err = Nil <=> Declined("AskYesNo.create")
    /\ \A i \in Indices("Import") :
         LookupNotFound =>
            /\ Before(i, "CreateEmptyApp")
            /\ Before(i, "writeAppConfigToFile")
            /\ stitchJSON = [exists |-> TRUE, data |-> appInstanceData]
            /\ appInstanceData["app_id"] = app.ClientAppID
            /\ appInstanceData["name"] = app.Name
            /\ app.ClientAppID \notin DOMAIN start.remote

C15_Witness ==
    /\ Declined("AskYesNo.create")
    /\ pc = "done"
    /\ rc = 0

C15_WitnessImport ==
    /\ LookupNotFound
    /\ Succeeded("Import")

\* C16 as stated, for runs without --include-hosting: a second run with the
\* same inputs, on the app the first run applied its payload to, never calls
\* stitchClient.Import.
C16_SecondRunNeverImports ==
    (previous # NoRun /\ ~flagIncludeHosting) => ~Called("Import")

\* C16, amended: once Import has applied a payload under a strategy, diffing
\* that payload against the deployed app under that strategy gives no line.
\* In a second run with the same inputs on the same app, the diff that
\* stitchClient.Diff computes therefore holds asset lines only, and when there
\* are none the run ends at the no-op notice with nil, without prompt, Import
\* or any change to the deployed apps. Diff is computed only without -y: a
\* second run with -y calls Import again.
C16_ReDiffAfterImportIsEmpty ==
    /\ \A i \in Indices("Import") :
         calls[i].ok =>
            ConfigDiff(calls[i].payload, remote[app.ClientAppID], calls[i].strategy) = <<>>
    /\ (previous # NoRun /\ Succeeded("Diff")) =>
          /\ app = previous.app
          /\ ~flagYes
          /\ diffs = AssetLinesNow
          /\ AssetLinesNow = <<>> =>
                /\ Ended
                /\ err = Nil
                /\ calls[Len(calls)].op = "UI.Info" \/ pc = "done"
                /\ \E i \in Indices("UI.Info") : calls[i].msg = "nothing to do"
                /\ ~Called("AskYesNo.confirm")
                /\ ~Called("Import")
                /\ remote = start.remote
                /\ DiskUntouched
    /\ (previous # NoRun /\ Called("Import")) =>
          \/ flagYes
          \/ /\ AssetLinesNow # <<>>
             /\ \E i \in Indices("AskYesNo.confirm") : calls[i].msg = "yes"

C16_Witness ==
    /\ previous # NoRun
    /\ previous.payload # <<>>
    /\ Succeeded("Diff")
    /\ \E i \in Indices("UI.Info") : calls[i].msg = "nothing to do"
    /\ pc = "done"
    /\ rc = 0

C16_WitnessCreated ==
    /\ previous # NoRun
    /\ previous.app.ClientAppID = "app2"
    /\ flagIncludeHosting
    /\ Succeeded("Diff")
    /\ \E i \in Indices("UI.Info") : calls[i].msg = "nothing to do"
    /\ pc = "done"

C16_WitnessYes ==
    /\ previous # NoRun
    /\ flagYes
    /\ Succeeded("Import")

\* C17: a lookup that failed with another error than not-found ends the run
\* with that error: the step that takes the failure leaves the strategy as it
\* was and returns from importApp, and no creation prompt, CreateEmptyApp,
\* Diff, Import or local write is called. The creation prompt is reached only
\* after a not-found lookup, and a not-found lookup is never the error the run
\* returns.
LookupFailedOtherwise ==
    \E i \in Indices("FetchAppByClientAppID") :
        ~calls[i].ok /\ calls[i].msg # "ErrAppNotFound"
C17_State ==
    /\ LookupFailedOtherwise =>
          /\ Ended
          /\ err = PlainErr("FetchAppByClientAppID")
          /\ ~appNotFound
          /\ ~skipDiff
          /\ \A op \in CreationSteps \cup LocalWrites \cup {"Diff", "Import"} : ~Called(op)
          /\ \A i \in 1..Len(calls) :
                calls[i].op = "FetchAppByClientAppID" =>
                   \A j \in (i + 1)..Len(calls) : calls[j].op = "UI.Error"
          /\ remote = start.remote
          /\ DiskUntouched
    /\ Called("AskYesNo.create") => LookupNotFound
    /\ LookupNotFound =>
          /\ ~LookupFailedOtherwise
          /\ err # PlainErr("FetchAppByClientAppID")
          /\ err.cause \notin {"ErrAppNotFound", "this app does not exist yet"}
C17_Step ==
    (pc = "fetchAppByClientAppID" /\ LookupFailedOtherwise') =>
        /\ flagStrategy' = flagStrategy
        /\ pc' = "importAppReturned"
C17_OnlyNotFoundDrivesCreation == [](C17_State) /\ [][C17_Step]_vars

C17_Witness ==
    /\ LookupFailedOtherwise
    /\ flagStrategy = "merge"
    /\ pc = "done"
    /\ rc = 1

\* C18: right after resolveAppInstanceData returned without error, the
\* instance data is: for a file that exists and a non-empty --app-id, the
\* file's fields with the app ID set to the flag's value; for a file that
\* exists and an empty --app-id, the file's data as it is; for no file, the
\* app ID field alone, set to the flag's value (possibly empty). A failure to
\* read the file that exists ends the run with that error.
C18_InstanceDataMergesAppIDFlag ==
    /\ (pc = "UnmarshalFromDir" /\ stitchJSON.exists /\ flagAppID # "") =>
          /\ DOMAIN appInstanceData = DOMAIN stitchJSON.data \cup {"app_id"}
          /\ appInstanceData["app_id"] = flagAppID
          /\ \A f \in DOMAIN stitchJSON.data \ {"app_id"} :
                appInstanceData[f] = stitchJSON.data[f]
    /\ (pc = "UnmarshalFromDir" /\ stitchJSON.exists /\ flagAppID = "") =>
          appInstanceData = stitchJSON.data
    /\ (pc = "UnmarshalFromDir" /\ ~stitchJSON.exists) =>
          /\ DOMAIN appInstanceData = {"app_id"}
          /\ appInstanceData["app_id"] = flagAppID
          /\ err = Nil
    /\ Failed("UnmarshalFile") =>
          /\ stitchJSON.exists
          /\ Ended
          /\ err = PlainErr("UnmarshalFile")
          /\ appInstanceData = <<>>

C18_Witness ==
    /\ pc = "UnmarshalFromDir"
    /\ stitchJSON.exists
    /\ stitchJSON.data["app_id"] = "app0"
    /\ flagAppID = "app1"
    /\ appInstanceData["app_id"] = "app1"
    /\ appInstanceData["name"] = "n1"

C18_WitnessNoFile ==
    /\ pc = "UnmarshalFromDir"
    /\ ~stitchJSON.exists
    /\ flagAppID = ""
    /\ appInstanceData["app_id"] = ""

\* C19: whenever stitchClient.Diff and stitchClient.Import are both called in
\* a run they are given the same group ID, app ID, payload and strategy. The
\* payload is encoded once, by the one json.Marshal call that comes before
\* every remote call, from the declaration the run loaded, and is what appData
\* holds from then on; the strategy of the Diff call is the one the flag
\* still holds afterwards.
RemoteCalls ==
    {"FetchAppByClientAppID", "FetchAppsByGroupID", "CreateEmptyApp",
     "ListAssetsForAppID", "Diff", "Import", "ImportHosting", "Export"}
C19_DiffAndImportSameArguments ==
    /\ \A i \in Indices("Diff") : \A j \in Indices("Import") :
         /\ calls[i].group = calls[j].group
         /\ calls[i].appID = calls[j].appID
         /\ calls[i].payload = calls[j].payload
         /\ calls[i].strategy = calls[j].strategy
    /\ \A i \in Indices("Diff") \cup Indices("Import") :
         /\ calls[i].payload = Marshal(start.localDir)
         /\ calls[i].payload = appData
         /\ calls[i].strategy = flagStrategy
         /\ calls[i].group = app.GroupID
         /\ calls[i].appID = app.ID
    /\ Cardinality(Indices("json.Marshal")) <= 1
    /\ \A i \in 1..Len(calls) :
         calls[i].op \in RemoteCalls => Before(i, "json.Marshal")
    /\ Succeeded("json.Marshal") => appData = Marshal(start.localDir)

C19_Witness ==
    /\ \E i \in Indices("Diff") : \E j \in Indices("Import") :
         /\ calls[i].strategy = "replace"
         /\ calls[j].strategy = "replace"
         /\ calls[i].payload # <<>>
         /\ calls[j].ok
    /\ pc = "done"

\* C20: CreateEmptyApp is called at most once in a run, and only after the
\* lookup reported not-found, the user confirmed the creation, the apps of the
\* resolved group were fetched and the app name was not among them, and both
\* the location and the deployment model were chosen; it is called for the
\* group whose apps were fetched. When the name is among the fetched apps the
\* run ends with 'app already exists', without the location or deployment
\* prompt and without CreateEmptyApp.
C20_CreateOnceAfterChecks ==
    /\ Cardinality(Indices("CreateEmptyApp")) <= 1
    /\ \A i \in Indices("CreateEmptyApp") :
         /\ LookupNotFound
         /\ \E j \in Indices("FetchAppByClientAppID") : j < i
         /\ \E j \in Indices("AskYesNo.create") :
               j < i /\ calls[j].ok /\ calls[j].msg = "yes"
         /\ ~Declined("AskYesNo.create")
         /\ \E j \in Indices("FetchAppsByGroupID") :
               /\ j < i
               /\ calls[j].ok
               /\ calls[j].msg # "name exists"
               /\ calls[j].group = calls[i].group
         /\ \A j \in Indices("FetchAppsByGroupID") : calls[j].msg # "name exists"
         /\ Before(i, "AskWithOptions.location")
         /\ Before(i, "AskWithOptions.deploymentModel")
    /\ \A j \in Indices("FetchAppsByGroupID") :
         calls[j].msg = "name exists" =>
            /\ Ended
            /\ err = PlainErr("app already exists")
            /\ ~Called("AskWithOptions.location")
            /\ ~Called("AskWithOptions.deploymentModel")
            /\ ~Called("CreateEmptyApp")
            /\ \A k \in (j + 1)..Len(calls) : calls[k].op = "UI.Error"

C20_Witness ==
    /\ \E j \in Indices("FetchAppsByGroupID") : calls[j].msg = "name exists"
    /\ pc = "done"
    /\ rc = 1

C20_WitnessCreated ==
    /\ Succeeded("CreateEmptyApp")
    /\ Succeeded("Import")

====
